---- MODULE Spec2Model ----
(***************************************************************************)
(* GraphQLInteraction (src/src/dsl/utils.ts): a fluent builder that        *)
(* accumulates an interaction record and finalizes it with json().         *)
(* The base class Interaction and the matcher constructor regex() are not  *)
(* part of the sources at hand; they are modelled from the specification.  *)
(***************************************************************************)
EXTENDS Integers, Sequences, FiniteSets, TLC

VARIABLES
    state,      \* this.state: the record json() returns (by reference)
    operation,  \* this.operation
    variables,  \* this.variables
    query,      \* this.query
    lastCall,   \* the most recent call on the builder: method, argument, outcome
    returned,   \* json() has handed this.state to a caller at least once
    history     \* what the calls made so far were (observation only)

vars == <<state, operation, variables, query, lastCall, returned, history>>

----------------------------------------------------------------------------
(* JavaScript values.  Strings are wrapped so that they can be told apart  *)
(* from null and undefined; a query string is a sequence of characters.    *)

Undefined == [t |-> "undefined"]
Null      == [t |-> "null"]
Str(s)    == [t |-> "string", v |-> s]

\* lodash isNil: true for null and undefined only
IsNil(x) == x.t \in {"undefined", "null"}

\* JavaScript falsiness of an operation value (null, undefined or ""): !x
Falsy(x) == \/ x.t \in {"undefined", "null"}
            \/ x.t = "string" /\ x.v = ""

\* An object without own properties: {}
EmptyObject == [k \in {} |-> Undefined]

\* A one-property object {k: v}
Prop(k, v) == [x \in {k} |-> v]

----------------------------------------------------------------------------
(* Characters of query strings.                                            *)

Whitespace == {" ", "\n"}

\* the longest run of whitespace put into a whitespace variant of a query
MaxPad == 1

----------------------------------------------------------------------------
(* The GraphQL grammar accepted by gql(), restricted to documents made of  *)
(* anonymous selection sets over names, aliases and enum-valued arguments. *)

RECURSIVE Tokens(_)
\* Lexer: whitespace is ignored, a maximal run of name characters is one
\* name token "N", every punctuator is a token of its own.
Tokens(s) ==
    IF s = <<>> THEN <<>>
    ELSE IF Head(s) \in Whitespace THEN Tokens(Tail(s))
    ELSE IF Head(s) = "a"
         THEN LET rest == Tokens(Tail(s))
              IN  IF Len(s) > 1 /\ s[2] = "a" THEN rest ELSE <<"N">> \o rest
    ELSE <<Head(s)>> \o Tokens(Tail(s))

Tok(t, i) == IF i >= 1 /\ i <= Len(t) THEN t[i] ELSE "EOF"

RECURSIVE ParseArguments(_, _)
\* Argument+ ")" starting at i; the position after ")" or 0 on a syntax error
ParseArguments(t, i) ==
    IF Tok(t, i) = "N" /\ Tok(t, i + 1) = ":" /\ Tok(t, i + 2) = "N"
    THEN IF Tok(t, i + 3) = ")" THEN i + 4 ELSE ParseArguments(t, i + 3)
    ELSE 0

RECURSIVE ParseSelectionSet(_, _)
RECURSIVE ParseSelections(_, _)
RECURSIVE ParseField(_, _)

\* Field: Alias? Name Arguments? SelectionSet?
ParseField(t, i) ==
    IF Tok(t, i) # "N" THEN 0
    ELSE LET n == IF Tok(t, i + 1) = ":"
                  THEN (IF Tok(t, i + 2) = "N" THEN i + 3 ELSE 0)
                  ELSE i + 1
             a == IF n = 0 THEN 0
                  ELSE IF Tok(t, n) = "(" THEN ParseArguments(t, n + 1)
                  ELSE n
         IN  IF a = 0 THEN 0
             ELSE IF Tok(t, a) = "{" THEN ParseSelectionSet(t, a)
             ELSE a

\* Selection+ "}" starting at i; the position after "}" or 0
ParseSelections(t, i) ==
    LET f == ParseField(t, i)
    IN  IF f = 0 THEN 0
        ELSE IF Tok(t, f) = "}" THEN f + 1
        ELSE ParseSelections(t, f)

ParseSelectionSet(t, i) ==
    IF Tok(t, i) = "{" THEN ParseSelections(t, i + 1) ELSE 0

RECURSIVE ParseDefinitions(_, _)
\* Definition+ up to the end of input
ParseDefinitions(t, i) ==
    LET d == ParseSelectionSet(t, i)
    IN  IF d = 0 THEN FALSE
        ELSE IF d > Len(t) THEN TRUE
        ELSE ParseDefinitions(t, d)

\* gql(query) returns normally (TRUE) or throws a syntax error (FALSE)
Gql(q) == ParseDefinitions(Tokens(q.v), 1)

----------------------------------------------------------------------------
(* The query matcher.                                                      *)

RECURSIVE ReplaceEachWhitespaceChar(_)
\* as ReplaceWhitespace, for the pattern /\s/g: one replacement per character
ReplaceEachWhitespaceChar(s) ==
    IF s = <<>> THEN <<>>
    ELSE IF Head(s) \in Whitespace
         THEN <<"\\", "s", "+">> \o ReplaceEachWhitespaceChar(Tail(s))
    ELSE <<Head(s)>> \o ReplaceEachWhitespaceChar(Tail(s))

RECURSIVE ReplaceWhitespace(_)
\* String.prototype.replace(/\s+/g, "\\s+"): every maximal run of
\* whitespace becomes the three characters \ s +
ReplaceWhitespace(s) ==
    IF s = <<>> THEN <<>>
    ELSE IF Head(s) \in Whitespace
         THEN IF Len(s) > 1 /\ s[2] \in Whitespace
              THEN ReplaceWhitespace(Tail(s))
              ELSE <<"\\", "s", "+">> \o ReplaceWhitespace(Tail(s))
    ELSE <<Head(s)>> \o ReplaceWhitespace(Tail(s))

\* regex({generate, matcher}) of ./matchers: the descriptor of the two
Regex(opts) == [generate |-> opts.generate, matcher |-> opts.matcher]

----------------------------------------------------------------------------
(* underscore's extend(destination, source): every property of source is   *)
(* copied onto destination, one level deep; a nil source copies nothing.   *)

\* as Extend, with the precedence the other way round
ExtendDestinationWins(destination, source) ==
    IF source = Undefined \/ source = Null THEN destination
    ELSE [k \in DOMAIN destination \cup DOMAIN source |->
            IF k \in DOMAIN destination THEN destination[k] ELSE source[k]]

Extend(destination, source) ==
    IF source = Undefined \/ source = Null THEN destination
    ELSE [k \in DOMAIN destination \cup DOMAIN source |->
            IF k \in DOMAIN source THEN source[k] ELSE destination[k]]

----------------------------------------------------------------------------
(* Inputs.                                                                 *)

QueryPlain   == Str(<<"{", " ", "a", " ", "}">>)
QueryArgs    == Str(<<"{", " ", "a", "(", "a", ":", "a", ")", " ", "{", "\n", " ", " ",
                       "a", "\n", "}", " ", "}">>)
QueryBroken  == Str(<<"{", " ", "a">>)
QueryEmpty   == Str(<<>>)

QueryInputs == {Null, Undefined, QueryEmpty, QueryBroken, QueryPlain, QueryArgs}

OperationInputs ==
    {Null, Undefined, Str(""), Str("subscription"), Str("query"), Str("mutation")}

VariablesInputs == {Prop("a", 1), Prop("b", 2)}

Descriptions == {Str("a request for projects"), Str("a request for dogs")}

ProviderStates == {Str("i have a list of projects")}

Responses == {[status |-> 200]}

CustomHeaders == Prop("X-Custom", "1")

RequestShapes ==
    { EmptyObject,
      Prop("headers", CustomHeaders),
      [method |-> "GET", path |-> "/dogs"],
      [method |-> "GET", path |-> "/dogs", query |-> "q=1",
       headers |-> CustomHeaders, body |-> Str("raw")] }

----------------------------------------------------------------------------
(* Errors, named after the message each throw carries.                     *)

NoError                 == "none"
MissingQueryError       == "You must provide a GraphQL query."
InvalidQueryError       == "GraphQL Query is invalid"
MissingDescriptionError == "You must provide a description for the query."
InvalidOperationError   == "You must provide a valid HTTP method: query, mutation."

Call(op, arg, err) == [op |-> op, arg |-> arg, err |-> err]

\* keys(GraphQLOperations)
GraphQLOperations == <<"query", "mutation">>

\* Array.prototype.indexOf, zero-based, -1 when absent
IndexOf(arr, x) ==
    IF \E i \in 1..Len(arr) : arr[i] = x
    THEN (CHOOSE i \in 1..Len(arr) : arr[i] = x /\ \A j \in 1..(i - 1) : arr[j] # x) - 1
    ELSE -1

----------------------------------------------------------------------------
(* The builder.                                                            *)

Init ==
    /\ state = [description |-> Undefined, providerState |-> Undefined,
                request |-> Undefined, response |-> Undefined]
    /\ operation = Null
    /\ variables = EmptyObject
    /\ query = Undefined
    /\ lastCall = Call("new", Undefined, NoError)
    /\ returned = FALSE
    /\ history = [described |-> FALSE, queryOk |-> FALSE,
                  operationCalled |-> FALSE, lastOperation |-> Null,
                  lastVariables |-> EmptyObject, lastQuery |-> Undefined,
                  lastDescription |-> Undefined, lastProviderState |-> Undefined,
                  requestSinceJson |-> FALSE, jsonFailed |-> FALSE]

\* Interaction.given(providerState)
Given(s) ==
    /\ state' = [state EXCEPT !.providerState = s]
    /\ lastCall' = Call("given", s, NoError)
    /\ history' = [history EXCEPT !.lastProviderState = s]
    /\ UNCHANGED <<operation, variables, query, returned>>

\* Interaction.uponReceiving(description)
UponReceiving(d) ==
    /\ state' = [state EXCEPT !.description = d]
    /\ lastCall' = Call("uponReceiving", d, NoError)
    /\ history' = [history EXCEPT !.described = TRUE, !.lastDescription = d]
    /\ UNCHANGED <<operation, variables, query, returned>>

\* Interaction.withRequest(requestOpts)
WithRequest(r) ==
    /\ state' = [state EXCEPT !.request = r]
    /\ lastCall' = Call("withRequest", r, NoError)
    /\ history' = [history EXCEPT !.requestSinceJson = TRUE]
    /\ UNCHANGED <<operation, variables, query, returned>>

\* Interaction.willRespondWith(responseOpts)
WillRespondWith(r) ==
    /\ state' = [state EXCEPT !.response = r]
    /\ lastCall' = Call("willRespondWith", r, NoError)
    /\ UNCHANGED <<operation, variables, query, returned, history>>

\* as OperationRejected, with the index test off by one
OperationRejectedOffByOne(op) ==
    Falsy(op) \/ (~Falsy(op) /\ IndexOf(GraphQLOperations, op.v) <= 0)

\* as OperationRejected, without the test for a missing value
OperationRejectedNoFalsyTest(op) ==
    ~Falsy(op) /\ IndexOf(GraphQLOperations, op.v) < 0

\* the throw condition of withOperation
OperationRejected(op) ==
    Falsy(op) \/ (~Falsy(op) /\ IndexOf(GraphQLOperations, op.v) < 0)

\* as WithOperation, with the variables reinitialized on success
WithOperationResetsVariables(op) ==
    IF OperationRejected(op)
    THEN /\ lastCall' = Call("withOperation", op, InvalidOperationError)
         /\ history' = [history EXCEPT !.operationCalled = TRUE]
         /\ UNCHANGED <<state, operation, variables, query, returned>>
    ELSE /\ operation' = op
         /\ variables' = EmptyObject
         /\ lastCall' = Call("withOperation", op, NoError)
         /\ history' = [history EXCEPT !.operationCalled = TRUE,
                                       !.lastOperation = op]
         /\ UNCHANGED <<state, query, returned>>

WithOperation(op) ==
    IF OperationRejected(op)
    THEN /\ lastCall' = Call("withOperation", op, InvalidOperationError)
         /\ history' = [history EXCEPT !.operationCalled = TRUE]
         /\ UNCHANGED <<state, operation, variables, query, returned>>
    ELSE /\ operation' = op
         /\ lastCall' = Call("withOperation", op, NoError)
         /\ history' = [history EXCEPT !.operationCalled = TRUE,
                                       !.lastOperation = op]
         /\ UNCHANGED <<state, variables, query, returned>>

\* as WithVariables, with the new entries merged into the stored ones
WithVariablesMerges(v) ==
    /\ variables' = [k \in DOMAIN variables \cup DOMAIN v |->
                        IF k \in DOMAIN v THEN v[k] ELSE variables[k]]
    /\ lastCall' = Call("withVariables", v, NoError)
    /\ history' = [history EXCEPT !.lastVariables = v]
    /\ UNCHANGED <<state, operation, query, returned>>

WithVariables(v) ==
    /\ variables' = v
    /\ lastCall' = Call("withVariables", v, NoError)
    /\ history' = [history EXCEPT !.lastVariables = v]
    /\ UNCHANGED <<state, operation, query, returned>>

\* as WithQuery, with the assignment moved above the parse
WithQueryStoresBeforeParse(q) ==
    IF IsNil(q)
    THEN /\ lastCall' = Call("withQuery", q, MissingQueryError)
         /\ UNCHANGED <<state, operation, variables, query, returned, history>>
    ELSE /\ query' = q
         /\ IF ~Gql(q)
            THEN /\ lastCall' = Call("withQuery", q, InvalidQueryError)
                 /\ UNCHANGED history
            ELSE /\ lastCall' = Call("withQuery", q, NoError)
                 /\ history' = [history EXCEPT !.queryOk = TRUE, !.lastQuery = q]
         /\ UNCHANGED <<state, operation, variables, returned>>

WithQuery(q) ==
    IF IsNil(q)
    THEN /\ lastCall' = Call("withQuery", q, MissingQueryError)
         /\ UNCHANGED <<state, operation, variables, query, returned, history>>
    ELSE IF ~Gql(q)
    THEN /\ lastCall' = Call("withQuery", q, InvalidQueryError)
         /\ UNCHANGED <<state, operation, variables, query, returned, history>>
    ELSE /\ query' = q
         /\ lastCall' = Call("withQuery", q, NoError)
         /\ history' = [history EXCEPT !.queryOk = TRUE, !.lastQuery = q]
         /\ UNCHANGED <<state, operation, variables, returned>>

\* the object literal json() passes to extend as its destination
DerivedRequest ==
    [ body    |-> [ operationName |-> operation,
                    query         |-> Regex([generate |-> query.v,
                                             matcher  |-> ReplaceWhitespace(query.v)]),
                    variables     |-> variables ],
      headers |-> Prop("content-type", "application/json"),
      method  |-> "POST" ]

\* as JsonError, with the two checks in the other order
JsonErrorDescriptionFirst ==
    IF IsNil(state.description) THEN MissingDescriptionError
    ELSE IF IsNil(query) THEN MissingQueryError
    ELSE NoError

\* as JsonError, without the check of the description
JsonErrorNoDescriptionCheck ==
    IF IsNil(query) THEN MissingQueryError ELSE NoError

\* the error json() throws, if any: the two checks in their order
JsonError ==
    IF IsNil(query) THEN MissingQueryError
    ELSE IF IsNil(state.description) THEN MissingDescriptionError
    ELSE NoError

\* as Json, with the request assigned before the description is checked
JsonAssignsBeforeDescriptionCheck ==
    IF IsNil(query)
    THEN /\ lastCall' = Call("json", Undefined, MissingQueryError)
         /\ history' = [history EXCEPT !.jsonFailed = TRUE]
         /\ UNCHANGED <<state, operation, variables, query, returned>>
    ELSE /\ state' = [state EXCEPT !.request = Extend(DerivedRequest, state.request)]
         /\ IF IsNil(state.description)
            THEN /\ lastCall' = Call("json", Undefined, MissingDescriptionError)
                 /\ history' = [history EXCEPT !.jsonFailed = TRUE]
                 /\ UNCHANGED returned
            ELSE /\ lastCall' = Call("json", Undefined, NoError)
                 /\ returned' = TRUE
                 /\ history' = [history EXCEPT !.requestSinceJson = FALSE]
         /\ UNCHANGED <<operation, variables, query>>

Json ==
    IF JsonError # NoError
    THEN /\ lastCall' = Call("json", Undefined, JsonError)
         /\ history' = [history EXCEPT !.jsonFailed = TRUE]
         /\ UNCHANGED <<state, operation, variables, query, returned>>
    ELSE /\ state' = [state EXCEPT !.request = Extend(DerivedRequest, state.request)]
         /\ lastCall' = Call("json", Undefined, NoError)
         /\ returned' = TRUE
         /\ history' = [history EXCEPT !.requestSinceJson = FALSE]
         /\ UNCHANGED <<operation, variables, query>>

Next ==
    \/ \E s \in ProviderStates : Given(s)
    \/ \E d \in Descriptions : UponReceiving(d)
    \/ \E r \in RequestShapes : WithRequest(r)
    \/ \E r \in Responses : WillRespondWith(r)
    \/ \E op \in OperationInputs : WithOperation(op)
    \/ \E v \in VariablesInputs : WithVariables(v)
    \/ \E q \in QueryInputs : WithQuery(q)
    \/ Json

Spec == Init /\ [][Next]_vars

----------------------------------------------------------------------------
(* How a consumer of the record applies a matcher: the pattern is compiled *)
(* as a regular expression and searched for in the candidate string.       *)
(* A backslash-s-plus is one or more whitespace characters, parentheses    *)
(* delimit a group and match nothing themselves, a brace that starts no    *)
(* quantifier and every other character match themselves.                  *)

RECURSIVE MatchAt(_, _, _, _)
MatchAt(p, i, s, j) ==
    IF i > Len(p) THEN TRUE
    ELSE IF p[i] = "\\" /\ i + 2 <= Len(p) /\ p[i + 1] = "s" /\ p[i + 2] = "+"
         THEN \E k \in 1..(Len(s) - j + 1) :
                 /\ \A m \in j..(j + k - 1) : s[m] \in Whitespace
                 /\ MatchAt(p, i + 3, s, j + k)
    ELSE IF p[i] \in {"(", ")"} THEN MatchAt(p, i + 1, s, j)
    ELSE j <= Len(s) /\ s[j] = p[i] /\ MatchAt(p, i + 1, s, j + 1)

RegexTest(p, s) == \E j \in 1..(Len(s) + 1) : MatchAt(p, 1, s, j)

\* the whitespace strings of at most MaxPad characters
WsRuns == UNION {[1..n -> Whitespace] : n \in 1..MaxPad}

\* the maximal runs of whitespace of s, as <<first, last>>
MaximalRuns(s) ==
    {r \in (1..Len(s)) \X (1..Len(s)) :
        /\ r[1] <= r[2]
        /\ \A m \in r[1]..r[2] : s[m] \in Whitespace
        /\ (r[1] = 1 \/ s[r[1] - 1] \notin Whitespace)
        /\ (r[2] = Len(s) \/ s[r[2] + 1] \notin Whitespace)}

\* s itself and every string one whitespace edit away from it: a run
\* deleted, a run replaced, a run inserted between two characters
WsVariants(s) ==
    {s}
    \cup {SubSeq(s, 1, r[1] - 1) \o SubSeq(s, r[2] + 1, Len(s)) : r \in MaximalRuns(s)}
    \cup {SubSeq(s, 1, x[1][1] - 1) \o x[2] \o SubSeq(s, x[1][2] + 1, Len(s)) :
            x \in MaximalRuns(s) \X WsRuns}
    \cup {SubSeq(s, 1, x[1]) \o x[2] \o SubSeq(s, x[1] + 1, Len(s)) :
            x \in (1..(Len(s) - 1)) \X WsRuns}

----------------------------------------------------------------------------
(* Shorthands for the properties.                                          *)

RequestFields == {"method", "path", "query", "headers", "body"}

JsonSucceeded == lastCall.op = "json" /\ lastCall.err = NoError

\* the request carries a body of the shape json() derives
HasDerivedBody(req) == "body" \in DOMAIN req /\ "query" \in DOMAIN req.body

ValidOperations == {Str("query"), Str("mutation")}

----------------------------------------------------------------------------
(* C1: after withRequest({headers: {"X-Custom": "1"}}) and a successful    *)
(* json(), the request headers hold both "X-Custom": "1" and               *)
(* "content-type": "application/json".                                     *)
C1_HeadersCombined ==
    [][ ( /\ "headers" \in DOMAIN state.request
          /\ state.request.headers = CustomHeaders
          /\ JsonSucceeded' )
        => ( /\ "X-Custom" \in DOMAIN state'.request.headers
             /\ state'.request.headers["X-Custom"] = "1"
             /\ "content-type" \in DOMAIN state'.request.headers
             /\ state'.request.headers["content-type"] = "application/json" ) ]_vars

(* C2: in the request returned by the first successful json(), every       *)
(* top-level field the caller set through withRequest keeps the caller's   *)
(* value, and every other field holds the derived default: method POST,    *)
(* headers {content-type: application/json}, the GraphQL body; path and    *)
(* query have no default and stay absent.                                  *)
C2_CallerFieldsWin ==
    [][ (~returned /\ JsonSucceeded')
        => \A f \in RequestFields :
              IF f \in DOMAIN state.request
              THEN f \in DOMAIN state'.request /\ state'.request[f] = state.request[f]
              ELSE CASE f = "method"  -> /\ f \in DOMAIN state'.request
                                         /\ state'.request.method = "POST"
                     [] f = "headers" -> /\ f \in DOMAIN state'.request
                                         /\ state'.request.headers =
                                                Prop("content-type", "application/json")
                     [] f = "body"    -> /\ HasDerivedBody(state'.request)
                                         /\ state'.request.body.operationName = operation
                                         /\ state'.request.body.query.generate = query.v
                                         /\ state'.request.body.variables = variables
                     [] OTHER         -> f \notin DOMAIN state'.request ]_vars

C2_Witness ==
    /\ JsonSucceeded
    /\ DOMAIN state.request = {"method", "path", "headers", "body"}
    /\ state.request.method = "GET"
    /\ state.request.path = "/dogs"
    /\ state.request.headers = Prop("content-type", "application/json")
    /\ HasDerivedBody(state.request)

(* C3: the matcher json() derives from a query accepts the query itself    *)
(* and every string obtained from it by deleting, replacing or inserting   *)
(* a run of whitespace.                                                    *)
C3_WhitespaceTolerant ==
    (JsonSucceeded /\ HasDerivedBody(state.request))
    => \A v \in WsVariants(state.request.body.query.generate) :
          RegexTest(state.request.body.query.matcher, v)

(* C4: once json() has returned the record, no later call on the builder   *)
(* changes the content of that record.                                     *)
C4_ReturnedRecordFrozen ==
    [][ returned => state' = state ]_vars

(* C5: withQuery(null), withQuery(undefined) and withQuery("") fail with   *)
(* MissingQueryError and store nothing.                                    *)
C5_AbsentOrEmptyQueryIsMissing ==
    [][ (lastCall'.op = "withQuery" /\ lastCall'.arg \in {Null, Undefined, QueryEmpty})
        => (lastCall'.err = MissingQueryError /\ query' = query) ]_vars

(* C6: json() fails with MissingQueryError whenever no withQuery call has  *)
(* succeeded so far, whatever else is set.                                 *)
C6_JsonNeedsQuery ==
    (lastCall.op = "json" /\ ~history.queryOk) => lastCall.err = MissingQueryError

C6_Witness ==
    /\ lastCall.op = "json"
    /\ lastCall.err = MissingQueryError
    /\ ~history.queryOk
    /\ ~IsNil(state.description)
    /\ ~IsNil(state.providerState)
    /\ operation \in ValidOperations
    /\ variables # EmptyObject
    /\ state.request = [method |-> "GET", path |-> "/dogs"]
    /\ state.response = [status |-> 200]

(* C7: withQuery with a string that does not parse as GraphQL fails at     *)
(* that call with InvalidQueryError and leaves the stored query as it was. *)
C7_InvalidQueryRejected ==
    [][ ( /\ lastCall'.op = "withQuery"
          /\ lastCall'.arg.t = "string"
          /\ ~Gql(lastCall'.arg) )
        => (lastCall'.err = InvalidQueryError /\ query' = query) ]_vars

C7_Witness ==
    /\ lastCall = Call("withQuery", QueryBroken, InvalidQueryError)
    /\ query = QueryPlain
    /\ ~returned

C9_OperationReflected ==
    [][ /\ (lastCall'.op = "withOperation" /\ lastCall'.arg \in ValidOperations)
           => lastCall'.err = NoError
        /\ (~returned /\ JsonSucceeded' /\ "body" \notin DOMAIN state.request)
           => /\ HasDerivedBody(state'.request)
              /\ state'.request.body.operationName = history.lastOperation ]_vars

C9_Witness ==
    /\ JsonSucceeded
    /\ HasDerivedBody(state.request)
    /\ state.request.body.operationName = Str("mutation")
    /\ history.lastOperation = Str("mutation")

(* C10: withOperation with a value outside {query, mutation} (null,        *)
(* undefined and "" included) fails with InvalidOperationError and leaves  *)
(* the stored operation as it was; a builder on which withOperation was    *)
(* never called finalizes successfully once it has a query and a           *)
(* description.                                                            *)
C10_InvalidOperationRejected ==
    [][ /\ (lastCall'.op = "withOperation" /\ lastCall'.arg \notin ValidOperations)
           => (lastCall'.err = InvalidOperationError /\ operation' = operation)
        /\ ( /\ lastCall'.op = "json"
             /\ ~history.operationCalled
             /\ history.queryOk
             /\ history.described )
           => (lastCall'.err = NoError /\ operation' = Null) ]_vars

C10_Witness ==
    /\ lastCall = Call("withOperation", Str("subscription"), InvalidOperationError)
    /\ operation = Str("query")
    /\ history.lastOperation = Str("query")

(* C11: withVariables replaces the stored variables wholesale, and the     *)
(* first successful json() on a builder whose withRequest supplied no body *)
(* returns body.variables equal to exactly the argument of the last        *)
(* withVariables call, or the empty mapping when it was never called.      *)
C11_VariablesReplaced ==
    [][ /\ (lastCall'.op = "withVariables") => variables' = lastCall'.arg
        /\ (~returned /\ JsonSucceeded' /\ "body" \notin DOMAIN state.request)
           => /\ HasDerivedBody(state'.request)
              /\ state'.request.body.variables = history.lastVariables ]_vars

C11_Witness ==
    /\ JsonSucceeded
    /\ HasDerivedBody(state.request)
    /\ state.request.body.variables = Prop("b", 2)
    /\ history.lastVariables = Prop("b", 2)

\* what position i of s contributes to the pattern: a character that is
\* not whitespace itself, the first character of a whitespace run the
\* class for one-or-more whitespace, any other whitespace nothing
PatternPiece(s, i) ==
    IF s[i] \notin Whitespace THEN <<s[i]>>
    ELSE IF i = 1 \/ s[i - 1] \notin Whitespace THEN <<"\\", "s", "+">>
    ELSE <<>>

RECURSIVE PatternUpTo(_, _)
PatternUpTo(s, n) == IF n = 0 THEN <<>> ELSE PatternUpTo(s, n - 1) \o PatternPiece(s, n)

(* C12: the query descriptor json() builds has exactly the two fields      *)
(* generate and matcher; generate is the stored query string, matcher is   *)
(* that string with each maximal whitespace run replaced by the class for  *)
(* one-or-more whitespace and every other character copied in order.      *)
C12_DescriptorOfQuery ==
    [][ (JsonSucceeded' /\ "body" \notin DOMAIN state.request)
        => /\ HasDerivedBody(state'.request)
           /\ DOMAIN state'.request.body.query = {"generate", "matcher"}
           /\ state'.request.body.query.generate = query.v
           /\ state'.request.body.query.matcher = PatternUpTo(query.v, Len(query.v)) ]_vars

C12_Witness ==
    /\ JsonSucceeded
    /\ HasDerivedBody(state.request)
    /\ state.request.body.query.generate = QueryArgs.v
    /\ state.request.body.query.matcher =
          <<"{", "\\", "s", "+", "a", "(", "a", ":", "a", ")", "\\", "s", "+", "{",
            "\\", "s", "+", "a", "\\", "s", "+", "}", "\\", "s", "+", "}">>

\* the first successful json() hands out the last value given to each setter
RecordOfLastValues ==
    /\ state'.description = history.lastDescription
    /\ state'.providerState = history.lastProviderState
    /\ "body" \notin DOMAIN state.request
       => /\ HasDerivedBody(state'.request)
          /\ state'.request.body.operationName = history.lastOperation
          /\ state'.request.body.variables = history.lastVariables
          /\ state'.request.body.query.generate = history.lastQuery.v

(* C13: before the first json(), a successful given, uponReceiving,        *)
(* withOperation, withVariables or withQuery call changes its own field    *)
(* and no other, so the record of the first json() is made of the last     *)
(* value passed to each setter, whatever the order of the calls.           *)
C13_SettersIndependent ==
    [][ ~returned =>
        /\ (lastCall'.op = "given" /\ lastCall'.err = NoError)
           => /\ state' = [state EXCEPT !.providerState = lastCall'.arg]
              /\ UNCHANGED <<operation, variables, query>>
        /\ (lastCall'.op = "uponReceiving" /\ lastCall'.err = NoError)
           => /\ state' = [state EXCEPT !.description = lastCall'.arg]
              /\ UNCHANGED <<operation, variables, query>>
        /\ (lastCall'.op = "withOperation" /\ lastCall'.err = NoError)
           => /\ operation' = lastCall'.arg
              /\ UNCHANGED <<state, variables, query>>
        /\ (lastCall'.op = "withVariables" /\ lastCall'.err = NoError)
           => /\ variables' = lastCall'.arg
              /\ UNCHANGED <<state, operation, query>>
        /\ (lastCall'.op = "withQuery" /\ lastCall'.err = NoError)
           => /\ query' = lastCall'.arg
              /\ UNCHANGED <<state, operation, variables>>
        /\ JsonSucceeded' => RecordOfLastValues ]_vars

C13_Witness ==
    /\ JsonSucceeded
    /\ state.description = Str("a request for dogs")
    /\ state.providerState = Str("i have a list of projects")
    /\ HasDerivedBody(state.request)
    /\ state.request.body.operationName = Str("mutation")
    /\ state.request.body.variables = Prop("a", 1)
    /\ state.request.body.query.generate = QueryArgs.v
    /\ operation = Str("mutation") /\ variables = Prop("a", 1) /\ query = QueryArgs

(* C14: once json() has succeeded, a later json() call with no withRequest *)
(* in between succeeds and returns the request it returned before,         *)
(* whatever withQuery, withVariables or withOperation calls came between.  *)
C14_RequestFixedAtFirstJson ==
    [][ (returned /\ ~history.requestSinceJson /\ lastCall'.op = "json")
        => (lastCall'.err = NoError /\ state'.request = state.request) ]_vars

C14_Witness ==
    /\ JsonSucceeded
    /\ ~history.requestSinceJson
    /\ HasDerivedBody(state.request)
    /\ state.request.body.operationName # operation
    /\ state.request.body.variables # variables
    /\ state.request.body.query.generate # query.v

(* C15: json() checks the query before the description: with neither set   *)
(* it fails with MissingQueryError, and it fails with                      *)
(* MissingDescriptionError only when a query is stored.                    *)
C15_QueryCheckedFirst ==
    lastCall.op = "json"
    => /\ (~history.queryOk /\ ~history.described) => lastCall.err = MissingQueryError
       /\ lastCall.err = MissingDescriptionError => (history.queryOk /\ ~IsNil(query))

C15_Witness ==
    /\ lastCall = Call("json", Undefined, MissingQueryError)
    /\ ~history.queryOk
    /\ ~history.described

(* C16: a json() call that fails leaves request, response, description,    *)
(* state, operation, variables and query as they were; once the missing    *)
(* field is supplied json() succeeds with the record made of the values    *)
(* set, as if the failed call had not been made.                           *)
C16_FailedJsonChangesNothing ==
    [][ /\ (lastCall'.op = "json" /\ lastCall'.err # NoError)
           => UNCHANGED <<state, operation, variables, query, returned>>
        /\ ( /\ history.jsonFailed /\ ~returned
             /\ history.queryOk /\ history.described
             /\ lastCall'.op = "json" )
           => /\ lastCall'.err = NoError
              /\ state'.response = state.response
              /\ \A f \in RequestFields \ {"body"} :
                    f \in DOMAIN state.request
                    => (f \in DOMAIN state'.request /\ state'.request[f] = state.request[f])
              /\ RecordOfLastValues ]_vars

C16_Witness ==
    /\ JsonSucceeded
    /\ history.jsonFailed
    /\ HasDerivedBody(state.request)
    /\ state.request.method = "GET"
    /\ state.request.body.variables = Prop("b", 2)

====
